---- MODULE Spec2Model ----
(***************************************************************************)
(* Model of tools/find_js_duplicates.py: the comment stripper and          *)
(* normalizer, the line-by-line function extractor, the three grouping     *)
(* strategies of main and the canonical selector.                          *)
(*                                                                         *)
(* Text is a sequence of one-character strings.  Line numbers and indices  *)
(* follow the source: the extractor's i, start and end are 0-based line    *)
(* offsets, start_line and end_line are 1-based.                           *)
(***************************************************************************)
EXTENDS Integers, Sequences, FiniteSets, TLC

VARIABLES
    pc,             \* where the run is
    path, lines,    \* extract_functions: the file's path and code.splitlines()
    i, results,     \* extract_functions: the scan offset and the records
    text, once, twice,          \* normalize: a text, its norm, the norm's norm
    funcs,                      \* main: the records of all files
    exact_groups, ident_groups, \* main: group_exact's and group_identical_named's result
    remaining,                  \* main: the input of group_fuzzy
    unused, fuzzy_groups,       \* group_fuzzy: the pool and the clusters
    out                         \* main: the report

extractVars == <<path, lines, i, results>>
normVars    == <<text, once, twice>>
mainVars    == <<funcs, exact_groups, ident_groups, remaining, unused,
                 fuzzy_groups, out>>

vars == <<pc, extractVars, normVars, mainVars>>

(***************************************************************************)
(* Bounds of the model.                                                    *)
(***************************************************************************)
MaxLines == 3

(***************************************************************************)
(* Character classes.                                                      *)
(***************************************************************************)
Lowers == {"a","b","c","d","e","f","g","h","i","j","k","l","m",
           "n","o","p","q","r","s","t","u","v","w","x","y","z"}

Uppers == {"A","B","C","D","E","F","G","H","I","J","K","L","M",
           "N","O","P","Q","R","S","T","U","V","W","X","Y","Z"}

Digits == {"0","1","2","3","4","5","6","7","8","9"}

\* \s of the re module (the ASCII members)
WsChars == {" ", "\t", "\n", "\r", "\f"}

\* [A-Za-z0-9_$]
IdentChars == Lowers \cup Uppers \cup Digits \cup {"_", "$"}

\* \w, as used by \b
WordChars == Lowers \cup Uppers \cup Digits \cup {"_"}

Min(S) == CHOOSE x \in S : \A y \in S : x <= y

\* first position q >= p of s that is not in class C (Len(s)+1 when none):
\* where a greedy C* started at p stops
SkipWhile(s, p, C) ==
    CHOOSE q \in p..(Len(s) + 1) :
        /\ \A k \in p..(q - 1) : s[k] \in C
        /\ (q = Len(s) + 1 \/ s[q] \notin C)

\* where a greedy [^c]* started at p stops
SkipUntil(s, p, c) ==
    CHOOSE q \in p..(Len(s) + 1) :
        /\ \A k \in p..(q - 1) : s[k] # c
        /\ (q = Len(s) + 1 \/ s[q] = c)

\* the literal lit occurs in s at position p
MatchLit(s, p, lit) ==
    /\ p >= 1
    /\ p + Len(lit) - 1 <= Len(s)
    /\ \A k \in 1..Len(lit) : s[p + k - 1] = lit[k]

CharAt(s, p, c) == p >= 1 /\ p <= Len(s) /\ s[p] = c

\* str.lower
LowerChar(c) ==
    CASE c = "A" -> "a" [] c = "B" -> "b" [] c = "C" -> "c" [] c = "D" -> "d"
      [] c = "E" -> "e" [] c = "F" -> "f" [] c = "G" -> "g" [] c = "H" -> "h"
      [] c = "I" -> "i" [] c = "J" -> "j" [] c = "K" -> "k" [] c = "L" -> "l"
      [] c = "M" -> "m" [] c = "N" -> "n" [] c = "O" -> "o" [] c = "P" -> "p"
      [] c = "Q" -> "q" [] c = "R" -> "r" [] c = "S" -> "s" [] c = "T" -> "t"
      [] c = "U" -> "u" [] c = "V" -> "v" [] c = "W" -> "w" [] c = "X" -> "x"
      [] c = "Y" -> "y" [] c = "Z" -> "z" [] OTHER -> c

Lower(s) == [k \in 1..Len(s) |-> LowerChar(s[k])]

\* str.strip
Strip(s) ==
    LET keep == {k \in 1..Len(s) : s[k] \notin WsChars}
    IN  IF keep = {} THEN <<>>
        ELSE SubSeq(s, Min(keep), CHOOSE x \in keep : \A y \in keep : y <= x)

\* sep.join(ls)
RECURSIVE Join(_, _)
Join(ls, sep) ==
    IF Len(ls) = 0 THEN <<>>
    ELSE IF Len(ls) = 1 THEN ls[1]
    ELSE ls[1] \o sep \o Join(Tail(ls), sep)

(***************************************************************************)
(* FUNC_PATTERNS.  Each pattern is anchored at the start of the line       *)
(* (pat.match); the result is [ok, name] with name the text of group 1.    *)
(* The character classes that follow one another in each pattern are       *)
(* disjoint, so the greedy match is the only candidate match.              *)
(***************************************************************************)
NoMatch == [ok |-> FALSE, name |-> <<>>]

\* \s*\([^\)]*\)\s*\{ at position p
ParamsThenBrace(l, p) ==
    LET p1 == SkipWhile(l, p, WsChars)
        p2 == SkipUntil(l, p1 + 1, ")")
        p3 == SkipWhile(l, p2 + 1, WsChars)
    IN  /\ CharAt(l, p1, "(")
        /\ CharAt(l, p2, ")")
        /\ CharAt(l, p3, "{")

\* ([A-Za-z0-9_$]+) at position p, followed by ParamsThenBrace
IdentParamsBrace(l, p) ==
    LET q == SkipWhile(l, p, IdentChars)
    IN  IF q > p /\ ParamsThenBrace(l, q)
        THEN [ok |-> TRUE, name |-> SubSeq(l, p, q - 1)]
        ELSE NoMatch

\* ^\s*function\s+([A-Za-z0-9_$]+)\s*\([^\)]*\)\s*\{
PatFunctionDecl(l) ==
    LET p1 == SkipWhile(l, 1, WsChars)
        p2 == p1 + 8
        p3 == SkipWhile(l, p2, WsChars)
    IN  IF MatchLit(l, p1, <<"f", "u", "n", "c", "t", "i", "o", "n">>) /\ p3 > p2
        THEN IdentParamsBrace(l, p3)
        ELSE NoMatch

\* ^\s*(?:var|let|const)\s+([A-Za-z0-9_$]+)\s*= ; eq is the position of "="
DeclPrefix(l) ==
    LET p1 == SkipWhile(l, 1, WsChars)
        kw == IF MatchLit(l, p1, <<"v", "a", "r">>) THEN 3
              ELSE IF MatchLit(l, p1, <<"l", "e", "t">>) THEN 3
              ELSE IF MatchLit(l, p1, <<"c", "o", "n", "s", "t">>) THEN 5
              ELSE 0
        p2 == p1 + kw
        p3 == SkipWhile(l, p2, WsChars)
        p4 == SkipWhile(l, p3, IdentChars)
        p5 == SkipWhile(l, p4, WsChars)
    IN  IF kw > 0 /\ p3 > p2 /\ p4 > p3 /\ CharAt(l, p5, "=")
        THEN [ok |-> TRUE, name |-> SubSeq(l, p3, p4 - 1), eq |-> p5]
        ELSE [ok |-> FALSE, name |-> <<>>, eq |-> 0]

\* ^\s*(?:var|let|const)\s+([A-Za-z0-9_$]+)\s*=\s*function\b
PatFunctionExpr(l) ==
    LET d  == DeclPrefix(l)
        p1 == SkipWhile(l, d.eq + 1, WsChars)
        p2 == p1 + 8
    IN  IF /\ d.ok
           /\ MatchLit(l, p1, <<"f", "u", "n", "c", "t", "i", "o", "n">>)
           /\ (p2 > Len(l) \/ l[p2] \notin WordChars)
        THEN [ok |-> TRUE, name |-> d.name]
        ELSE NoMatch

\* ^\s*(?:var|let|const)\s+([A-Za-z0-9_$]+)\s*=\s*[^=\n]*=>\s*\{
PatArrow(l) ==
    LET d  == DeclPrefix(l)
        p1 == SkipUntil(l, d.eq + 1, "=")
        p2 == SkipWhile(l, p1 + 2, WsChars)
    IN  IF /\ d.ok
           /\ \A k \in (d.eq + 1)..(p1 - 1) : l[k] # "\n"
           /\ MatchLit(l, p1, <<"=", ">">>)
           /\ CharAt(l, p2, "{")
        THEN [ok |-> TRUE, name |-> d.name]
        ELSE NoMatch

\* ^\s*([A-Za-z0-9_$]+)\s*\([^\)]*\)\s*\{
PatMethod(l) == IdentParamsBrace(l, SkipWhile(l, 1, WsChars))

\* the first pattern of FUNC_PATTERNS that matches the line
FirstMatch(l) ==
    IF PatFunctionDecl(l).ok THEN PatFunctionDecl(l)
    ELSE IF PatFunctionExpr(l).ok THEN PatFunctionExpr(l)
    ELSE IF PatArrow(l).ok THEN PatArrow(l)
    ELSE PatMethod(l)

KEYWORD_NAMES ==
    { <<"i", "f">>, <<"f", "o", "r">>, <<"w", "h", "i", "l", "e">>, <<"s", "w", "i", "t", "c", "h">>, <<"c", "a", "t", "c", "h">>, <<"e", "l", "s", "e">>,
      <<"c", "o", "n", "s", "t", "r", "u", "c", "t", "o", "r">>, <<"s", "e", "t", "t", "i", "m", "e", "o", "u", "t">>, <<"s", "e", "t", "i", "n", "t", "e", "r", "v", "a", "l">>, <<"t", "i", "m", "e", "o", "u", "t">> }

\* name and name.strip().lower() in KEYWORD_NAMES
IsKeywordName(name) == Len(name) > 0 /\ Lower(Strip(name)) \in KEYWORD_NAMES

(***************************************************************************)
(* strip_comments and normalize.                                           *)
(***************************************************************************)
\* positions p of s where the two characters c1 c2 start, p >= from
Pairs(s, from, c1, c2) ==
    {p \in from..(Len(s) - 1) : s[p] = c1 /\ s[p + 1] = c2}

\* re.sub(r"/\*.*?\*/", '', code, flags=re.S): the leftmost "/*" that has a
\* "*/" after it is removed up to the nearest such "*/", and the search
\* goes on after it
RECURSIVE StripBlock(_)
StripBlock(s) ==
    LET opens == Pairs(s, 1, "/", "*")
    IN  IF opens = {} THEN s
        ELSE LET p      == Min(opens)
                 closes == Pairs(s, p + 2, "*", "/")
             IN  IF closes = {} THEN s
                 ELSE SubSeq(s, 1, p - 1)
                        \o StripBlock(SubSeq(s, Min(closes) + 2, Len(s)))

\* re.sub(r"//.*?$", '', code, flags=re.M): the leftmost "//" is removed up
\* to the end of its line (the newline stays)
RECURSIVE StripLine(_)
StripLine(s) ==
    LET starts == Pairs(s, 1, "/", "/")
    IN  IF starts = {} THEN s
        ELSE LET p == Min(starts)
                 q == SkipUntil(s, p + 2, "\n")
             IN  SubSeq(s, 1, p - 1) \o StripLine(SubSeq(s, q, Len(s)))

strip_comments(code) == StripLine(StripBlock(code))

\* re.sub(r"\s+", ' ', s)
RECURSIVE CollapseWs(_)
CollapseWs(s) ==
    LET ws == {k \in 1..Len(s) : s[k] \in WsChars}
    IN  IF ws = {} THEN s
        ELSE LET p == Min(ws)
                 q == SkipWhile(s, p, WsChars)
             IN  SubSeq(s, 1, p - 1) \o <<" ">>
                   \o CollapseWs(SubSeq(s, q, Len(s)))

normalize(code) == Strip(CollapseWs(strip_comments(code)))

(***************************************************************************)
(* Paths.  ROOT stands for the repository root the script computes from    *)
(* its own location.                                                       *)
(***************************************************************************)
ROOT == <<"/", "r">>

\* p.split('/')
RECURSIVE SplitPath(_)
SplitPath(p) ==
    LET q == SkipUntil(p, 1, "/")
    IN  IF q > Len(p) THEN <<p>>
        ELSE <<SubSeq(p, 1, q - 1)>> \o SplitPath(SubSeq(p, q + 1, Len(p)))

\* the components of os.path.normpath(p): empty and "." components are
\* dropped, ".." removes the component before it
RECURSIVE NormComps(_, _)
NormComps(comps, acc) ==
    IF Len(comps) = 0 THEN acc
    ELSE LET c == Head(comps)
         IN  IF c = <<>> \/ c = <<".">> THEN NormComps(Tail(comps), acc)
             ELSE IF c = <<".", ".">> /\ Len(acc) > 0 /\ acc[Len(acc)] # <<".", ".">>
                  THEN NormComps(Tail(comps), SubSeq(acc, 1, Len(acc) - 1))
             ELSE NormComps(Tail(comps), Append(acc, c))

\* os.path.join(a, b)
PathJoin(a, b) ==
    IF CharAt(b, 1, "/") THEN b
    ELSE IF Len(a) = 0 \/ a[Len(a)] = "/" THEN a \o b
    ELSE a \o <<"/">> \o b

\* os.path.relpath(p, start) for absolute p and start
RelPath(p, start) ==
    LET pc_ == NormComps(SplitPath(p), <<>>)
        sc  == NormComps(SplitPath(start), <<>>)
        n   == Min({k \in 0..Len(sc) :
                      k = Len(sc) \/ k >= Len(pc_) \/ pc_[k + 1] # sc[k + 1]})
        ups == [k \in 1..(Len(sc) - n) |-> <<".", ".">>]
        rel == ups \o SubSeq(pc_, n + 1, Len(pc_))
    IN  IF Len(rel) = 0 THEN <<".">> ELSE Join(rel, <<"/">>)

(***************************************************************************)
(* extract_functions.                                                      *)
(***************************************************************************)
SNIPPET_LEN == 120

Count(l, c) == Cardinality({k \in 1..Len(l) : l[k] = c})

\* BraceScan leaving the loop before j is advanced past the closing line
RECURSIVE BraceScanBreakFirst(_, _, _, _)
BraceScanBreakFirst(ls, j, brace_count, found_brace) ==
    IF j >= Len(ls) THEN j
    ELSE LET l     == ls[j + 1]
             count == brace_count + Count(l, "{") - Count(l, "}")
             found == found_brace \/ Count(l, "{") > 0
         IN  IF found /\ count <= 0 THEN j
             ELSE BraceScanBreakFirst(ls, j + 1, count, found)

\* the inner while loop: j is the 0-based offset of the line looked at next
RECURSIVE BraceScan(_, _, _, _)
BraceScan(ls, j, brace_count, found_brace) ==
    IF j >= Len(ls) THEN j
    ELSE LET l     == ls[j + 1]
             count == brace_count + Count(l, "{") - Count(l, "}")
             found == found_brace \/ Count(l, "{") > 0
         IN  IF found /\ count <= 0 THEN j + 1
             ELSE BraceScan(ls, j + 1, count, found)

\* s.replace('\n', '\\n')
RECURSIVE EscapeNewlines(_)
EscapeNewlines(s) ==
    LET q == SkipUntil(s, 1, "\n")
    IN  IF q > Len(s) THEN s
        ELSE SubSeq(s, 1, q - 1) \o <<"\\", "n">>
               \o EscapeNewlines(SubSeq(s, q + 1, Len(s)))

\* s[:n]
Take(s, n) == SubSeq(s, 1, IF Len(s) < n THEN Len(s) ELSE n)

\* the record appended for the function of lines[start:end]
MakeRecord(ls, p, start, end, name) ==
    LET func_code == Join(SubSeq(ls, start + 1, end), <<"\n">>)
    IN  [ path       |-> RelPath(p, ROOT),
          start_line |-> start + 1,
          end_line   |-> end,
          name       |-> name,
          code       |-> func_code,
          norm       |-> normalize(func_code),
          snippet    |-> EscapeNewlines(Take(func_code, SNIPPET_LEN)) ]

\* lines of the scanned files
LinePool ==
    { <<"f", "u", "n", "c", "t", "i", "o", "n", " ", "f", "(", ")", " ", "{">>,
      <<"i", "f", " ", "(", "x", ")", " ", "{">>,
      <<"I", "f", " ", "(", "y", ")", " ", "{", "}">>,
      <<"}">>,
      <<"/", "*">>,
      <<"*", "/">>,
      <<"/", "/", " ", "c">>,
      <<" ">>,
      <<"c", "o", "n", "s", "t", " ", "g", " ", "=", " ", "(", ")", " ", "=", ">", " ", "{">>,
      <<"v", "a", "r", " ", "h", " ", "=", " ", "f", "u", "n", "c", "t", "i", "o", "n", "(", ")", " ", "{">>,
      <<"f", "o", "o", "(", ")", " ", "{", "}">> }

FilePool == { <<"/", "r", "/", "a", ".", "j", "s">>, <<"/", "r", "/", "l", "i", "b", "/", "b", ".", "j", "s">> }

Texts(pool, n) == UNION {[1..k -> pool] : k \in 0..n}

InitExtract ==
    /\ pc = "scan"
    /\ path \in FilePool
    /\ lines \in Texts(LinePool, MaxLines)
    /\ i = 0
    /\ results = <<>>
    /\ text = <<>> /\ once = <<>> /\ twice = <<>>
    /\ funcs = <<>> /\ exact_groups = <<>> /\ ident_groups = <<>>
    /\ remaining = <<>> /\ unused = <<>> /\ fuzzy_groups = <<>>
    /\ out = <<>>

\* no pattern matches lines[i]
SkipLine ==
    /\ pc = "scan"
    /\ i < Len(lines)
    /\ ~FirstMatch(lines[i + 1]).ok
    /\ i' = i + 1
    /\ UNCHANGED <<pc, path, lines, results, normVars, mainVars>>

\* the first matching pattern captures a name of KEYWORD_NAMES: the branch
\* adds 1 to i and clears matched, and the "if not matched" that follows
\* adds 1 again
RejectKeyword ==
    /\ pc = "scan"
    /\ i < Len(lines)
    /\ FirstMatch(lines[i + 1]).ok
    /\ IsKeywordName(FirstMatch(lines[i + 1]).name)
    /\ i' = (i + 1) + 1
    /\ UNCHANGED <<pc, path, lines, results, normVars, mainVars>>

\* a function starts at lines[i]
EmitRecord ==
    /\ pc = "scan"
    /\ i < Len(lines)
    /\ FirstMatch(lines[i + 1]).ok
    /\ ~IsKeywordName(FirstMatch(lines[i + 1]).name)
    /\ LET end == BraceScan(lines, i, 0, FALSE)
       IN  /\ results' = Append(results,
                 MakeRecord(lines, path, i, end, FirstMatch(lines[i + 1]).name))
           /\ i' = end
    /\ UNCHANGED <<pc, path, lines, normVars, mainVars>>

\* while i < L fails: return results
FinishScan ==
    /\ pc = "scan"
    /\ i >= Len(lines)
    /\ pc' = "scanned"
    /\ UNCHANGED <<extractVars, normVars, mainVars>>

NextExtract == SkipLine \/ RejectKeyword \/ EmitRecord \/ FinishScan

SpecExtract == InitExtract /\ [][NextExtract]_vars

(***************************************************************************)
(* The same scan over files that hold one long line, so that a function's  *)
(* text reaches SNIPPET_LEN characters.                                    *)
(***************************************************************************)
LongLine == [k \in 1..110 |-> IF k <= 2 THEN " " ELSE "x"]

LongLinePool == { <<"f", "u", "n", "c", "t", "i", "o", "n", " ", "f", "(", ")", " ", "{">>, <<"i", "f", " ", "(", "x", ")", " ", "{">>, <<"}">>, <<"f", "o", "o", "(", ")", " ", "{", "}">>, LongLine }

InitExtractLong ==
    /\ pc = "scan"
    /\ path \in FilePool
    /\ lines \in Texts(LongLinePool, MaxLines)
    /\ i = 0
    /\ results = <<>>
    /\ text = <<>> /\ once = <<>> /\ twice = <<>>
    /\ funcs = <<>> /\ exact_groups = <<>> /\ ident_groups = <<>>
    /\ remaining = <<>> /\ unused = <<>> /\ fuzzy_groups = <<>>
    /\ out = <<>>

SpecExtractLong == InitExtractLong /\ [][NextExtract]_vars

(***************************************************************************)
(* normalize applied to a text and then to its own result.                 *)
(***************************************************************************)
MaxTextLen == 8

TextChars == {"/", "*", "a", "\n"}

InitNormalize ==
    /\ pc = "raw"
    /\ text \in Texts(TextChars, MaxTextLen)
    /\ once = <<>> /\ twice = <<>>
    /\ path = <<>> /\ lines = <<>> /\ i = 0 /\ results = <<>>
    /\ funcs = <<>> /\ exact_groups = <<>> /\ ident_groups = <<>>
    /\ remaining = <<>> /\ unused = <<>> /\ fuzzy_groups = <<>>
    /\ out = <<>>

NormalizeOnce ==
    /\ pc = "raw"
    /\ once' = normalize(text)
    /\ pc' = "normalized"
    /\ UNCHANGED <<text, twice, extractVars, mainVars>>

NormalizeAgain ==
    /\ pc = "normalized"
    /\ twice' = normalize(once)
    /\ pc' = "renormalized"
    /\ UNCHANGED <<text, once, extractVars, mainVars>>

NextNormalize == NormalizeOnce \/ NormalizeAgain

SpecNormalize == InitNormalize /\ [][NextNormalize]_vars

(***************************************************************************)
(* difflib.SequenceMatcher(None, a, b).ratio(), for texts shorter than the *)
(* 200 characters at which difflib starts to drop popular characters.      *)
(* Windows are 0-based and half-open, as in difflib.                       *)
(***************************************************************************)
\* length of the common run of a from x and b from y inside the windows
RunLength(a, b, x, ahi, y, bhi) ==
    LET lim == IF ahi - x < bhi - y THEN ahi - x ELSE bhi - y
    IN  CHOOSE k \in 0..lim :
            /\ \A d \in 1..k : a[x + d] = b[y + d]
            /\ (k = lim \/ a[x + k + 1] # b[y + k + 1])

\* find_longest_match: the longest block, of those the one starting
\* earliest in a, of those the one starting earliest in b
find_longest_match(a, b, alo, ahi, blo, bhi) ==
    LET cands == {<<x, y, RunLength(a, b, x, ahi, y, bhi)>> :
                     x \in alo..(ahi - 1), y \in blo..(bhi - 1)}
        blocks == {t \in cands : t[3] > 0}
    IN  IF blocks = {} THEN <<alo, blo, 0>>
        ELSE CHOOSE t \in blocks : \A u \in blocks :
                \/ t[3] > u[3]
                \/ t[3] = u[3] /\ t[1] < u[1]
                \/ t[3] = u[3] /\ t[1] = u[1] /\ t[2] <= u[2]

\* get_matching_blocks: the sum of the sizes of the matching blocks
RECURSIVE MatchedChars(_, _, _, _, _, _)
MatchedChars(a, b, alo, ahi, blo, bhi) ==
    LET m == find_longest_match(a, b, alo, ahi, blo, bhi)
        x == m[1]
        y == m[2]
        k == m[3]
    IN  IF k = 0 THEN 0
        ELSE k
             + (IF alo < x /\ blo < y
                THEN MatchedChars(a, b, alo, x, blo, y) ELSE 0)
             + (IF x + k < ahi /\ y + k < bhi
                THEN MatchedChars(a, b, x + k, ahi, y + k, bhi) ELSE 0)

\* ratio(): 2.0 * matches / length, 1.0 when both are empty; the fraction
\* <<numerator, denominator>>
Ratio(a, b) ==
    IF Len(a) + Len(b) = 0 THEN <<1, 1>>
    ELSE <<2 * MatchedChars(a, b, 0, Len(a), 0, Len(b)), Len(a) + Len(b)>>

\* score >= t / 100
AtLeast(score, t) == score[1] * 100 >= t * score[2]

\* score < 1.0
BelowOne(score) == score[1] < score[2]

\* round(score, 3), in thousandths (halves go to the even neighbour)
Round3(score) ==
    LET n == score[1] * 1000
        q == n \div score[2]
        r == n % score[2]
    IN  IF 2 * r > score[2] THEN q + 1
        ELSE IF 2 * r < score[2] THEN q
        ELSE IF q % 2 = 0 THEN q ELSE q + 1

(***************************************************************************)
(* FunctionRecords handed to the grouping functions.                       *)
(***************************************************************************)
\* a record of the file at relative path p whose text is code
Rec(p, start, name, code) ==
    [ path       |-> p,
      start_line |-> start,
      end_line   |-> start + Count(code, "\n"),
      name       |-> name,
      code       |-> code,
      norm       |-> normalize(code),
      snippet    |-> EscapeNewlines(Take(code, SNIPPET_LEN)) ]

\* name is None
None == <<>>

RecordPool ==
    { Rec(<<"b", ".", "j", "s">>,     1, <<"f">>, <<"f", "(", "a", ")", "{", "b", "}">>),
      Rec(<<"a", "b", ".", "j", "s">>,    1, <<"f">>, <<"f", "(", "a", ")", "{", "b", "}", " ">>),
      Rec(<<"a", ".", "j", "s">>,     1, <<"f">>, <<"f", "(", "a", ")", "{", "c", "}">>),
      Rec(<<"l", "i", "b", "/", "a", ".", "j", "s">>, 1, <<"g">>, <<"g", "(", "a", ")", "{", "c", "}">>),
      Rec(<<"a", ".", "j", "s">>,     3, <<"a">>, <<"a", "(", ")", "{", "}">>),
      Rec(<<"b", ".", "j", "s">>,     3, <<"b">>, <<"b", "(", ")", "{", "}">>),
      Rec(<<"l", "i", "b", "/", "a", ".", "j", "s">>, 3, None, <<"/", "*", "*", "/">>),
      Rec(<<"b", ".", "j", "s">>,     5, None, <<"/", "/", "x">>),
      Rec(<<"a", "b", ".", "j", "s">>,    3, None, <<"f", "(", "a", ")", "{", "b", "}", "/", "/", "x">>) }

MaxFuncs == 4

\* main extends funcs file by file, each file's records in line order
ScanOrder(fs) ==
    \A k \in 1..Len(fs) : \A m \in (k + 1)..Len(fs) :
        fs[k].path = fs[m].path =>
            /\ fs[k].start_line < fs[m].start_line
            /\ \A j \in k..m : fs[j].path = fs[k].path

\* the same record, with or without the similarity a cluster adds
SameRecord(f, g) == f.path = g.path /\ f.start_line = g.start_line

RECURSIVE Ascending(_)
Ascending(S) ==
    IF S = {} THEN <<>> ELSE <<Min(S)>> \o Ascending(S \ {Min(S)})

(***************************************************************************)
(* group_exact, group_identical_named.  A defaultdict keeps its keys in    *)
(* the order of their first insertion.                                     *)
(***************************************************************************)
\* group_exact without the test of the key
group_exact_any_key(fs) ==
    LET firsts  == {k \in 1..Len(fs) :
                      \A j \in 1..(k - 1) : fs[j].norm # fs[k].norm}
        order   == Ascending(firsts)
        by_body == [n \in 1..Len(order) |->
                      SelectSeq(fs, LAMBDA f : f.norm = fs[order[n]].norm)]
    IN  SelectSeq(by_body, LAMBDA items : Len(items) > 1)

group_exact(fs) ==
    LET firsts  == {k \in 1..Len(fs) :
                      \A j \in 1..(k - 1) : fs[j].norm # fs[k].norm}
        order   == Ascending(firsts)
        by_body == [n \in 1..Len(order) |->
                      SelectSeq(fs, LAMBDA f : f.norm = fs[order[n]].norm)]
    IN  SelectSeq(by_body, LAMBDA items : Len(items) > 1 /\ items[1].norm # <<>>)

\* group_identical_named without the test of the name
group_identical_named_any_name(fs) ==
    LET firsts  == {k \in 1..Len(fs) :
                      \A j \in 1..(k - 1) : fs[j].name # fs[k].name}
        order   == Ascending(firsts)
        by_name == [n \in 1..Len(order) |->
                      SelectSeq(fs, LAMBDA f : f.name = fs[order[n]].name)]
        bodies(items) == {items[k].norm : k \in 1..Len(items)}
    IN  SelectSeq(by_name, LAMBDA items :
                      Len(items) > 1 /\ Cardinality(bodies(items)) > 1)

group_identical_named(fs) ==
    LET named   == SelectSeq(fs, LAMBDA f : f.name # <<>>)
        firsts  == {k \in 1..Len(named) :
                      \A j \in 1..(k - 1) : named[j].name # named[k].name}
        order   == Ascending(firsts)
        by_name == [n \in 1..Len(order) |->
                      SelectSeq(named, LAMBDA f : f.name = named[order[n]].name)]
        bodies(items) == {items[k].norm : k \in 1..Len(items)}
    IN  SelectSeq(by_name, LAMBDA items :
                      Len(items) > 1 /\ Cardinality(bodies(items)) > 1)

(***************************************************************************)
(* group_fuzzy, one representative at a time.                              *)
(***************************************************************************)
\* threshold=0.82 of main's call, in hundredths
THRESHOLD == 82

\* Similar under group_fuzzy's default threshold=0.8
SimilarDefaultThreshold(rep, other) ==
    /\ rep.norm # <<>>
    /\ other.norm # <<>>
    /\ AtLeast(Ratio(rep.norm, other.norm), 80)
    /\ BelowOne(Ratio(rep.norm, other.norm))

\* the test that appends other to rep's cluster
Similar(rep, other) ==
    /\ rep.norm # <<>>
    /\ other.norm # <<>>
    /\ AtLeast(Ratio(rep.norm, other.norm), THRESHOLD)
    /\ BelowOne(Ratio(rep.norm, other.norm))

\* {**other, 'similarity': score}
WithSimilarity(other, score) ==
    [ path |-> other.path, start_line |-> other.start_line,
      end_line |-> other.end_line, name |-> other.name, code |-> other.code,
      norm |-> other.norm, snippet |-> other.snippet, similarity |-> score ]

\* the cluster of rep = pool[1] over the rest of the pool
Cluster(pool) ==
    LET rep     == Head(pool)
        matches == SelectSeq(Tail(pool), LAMBDA o : Similar(rep, o))
    IN  <<rep>> \o [k \in 1..Len(matches) |->
                      WithSimilarity(matches[k], Ratio(rep.norm, matches[k].norm))]

(***************************************************************************)
(* choose_canonical, make_entry.                                           *)
(***************************************************************************)
\* the characters 32..95 and 97..126, in code point order
PrintableLow ==
    <<" ", "!", "\"", "#", "$", "%", "&", "'", "(", ")", "*", "+", ",", "-", ".", "/", "0", "1", "2", "3", "4", "5", "6", "7", "8", "9", ":", ";", "<", "=", ">", "?", "@", "A", "B", "C", "D", "E", "F", "G", "H", "I", "J", "K", "L", "M", "N", "O", "P", "Q", "R", "S", "T", "U", "V", "W", "X", "Y", "Z", "[", "\\", "]", "^", "_">>

PrintableHigh == <<"a", "b", "c", "d", "e", "f", "g", "h", "i", "j", "k", "l", "m", "n", "o", "p", "q", "r", "s", "t", "u", "v", "w", "x", "y", "z", "{", "|", "}", "~">>

\* ord(c)
Ord(c) ==
    IF \E k \in 1..Len(PrintableLow) : PrintableLow[k] = c
    THEN 31 + (CHOOSE k \in 1..Len(PrintableLow) : PrintableLow[k] = c)
    ELSE 96 + (CHOOSE k \in 1..Len(PrintableHigh) : PrintableHigh[k] = c)

\* a < b for strings
StrLess(a, b) ==
    \E k \in 1..(Len(b)) :
        /\ \A j \in 1..(k - 1) : j <= Len(a) /\ a[j] = b[j]
        /\ (k > Len(a) \/ Ord(a[k]) < Ord(b[k]))

\* KeyLess with the path alone as the key
KeyLessPathOnly(x, y) == StrLess(x.path, y.path)

\* (len(x['path']), x['path']) < (len(y['path']), y['path'])
KeyLess(x, y) ==
    \/ Len(x.path) < Len(y.path)
    \/ Len(x.path) = Len(y.path) /\ StrLess(x.path, y.path)

\* sorted(group, key=...): stable insertion of each member in turn
RECURSIVE Insert(_, _)
Insert(sorted, x) ==
    IF Len(sorted) = 0 THEN <<x>>
    ELSE IF KeyLess(x, Head(sorted)) THEN <<x>> \o sorted
    ELSE <<Head(sorted)>> \o Insert(Tail(sorted), x)

RECURSIVE SortedByKey(_)
SortedByKey(group) ==
    IF Len(group) = 0 THEN <<>>
    ELSE Insert(SortedByKey(SubSeq(group, 1, Len(group) - 1)), group[Len(group)])

choose_canonical(group) ==
    LET canon == SortedByKey(group)[1]
    IN  [ canon |-> RelPath(PathJoin(ROOT, canon.path), ROOT),
          justification |-> <<"f", "i", "r", "s", "t", " ", "b", "y", " ", "p", "a", "t", "h", " ", "(">> \o canon.path
                              \o <<")", " ", "a", "n", "d", " ", "s", "h", "o", "r", "t", "e", "s", "t", " ", "p", "a", "t", "h", " ", "h", "e", "u", "r", "i", "s", "t", "i", "c">> ]

make_entry(f) ==
    [ path |-> f.path, start_line |-> f.start_line, end_line |-> f.end_line,
      name |-> f.name,
      snippet |-> IF Len(f.snippet) > 0 THEN Take(f.snippet, SNIPPET_LEN)
                  ELSE <<>> ]

Entries(g) == [k \in 1..Len(g) |-> make_entry(g[k])]

\* the report entry of an exact or identical-named group
GroupReport(g) ==
    [ functions |-> Entries(g),
      suggested_canonical |-> choose_canonical(g).canon,
      justification |-> choose_canonical(g).justification ]

\* the report entry of a fuzzy cluster
ClusterReport(g) ==
    [ representative |-> make_entry(g[1]),
      matches |-> [k \in 1..(Len(g) - 1) |->
                     [ path |-> g[k + 1].path,
                       start_line |-> g[k + 1].start_line,
                       end_line |-> g[k + 1].end_line,
                       name |-> g[k + 1].name,
                       snippet |-> make_entry(g[k + 1]).snippet,
                       similarity |-> Round3(g[k + 1].similarity) ]],
      suggested_canonical |-> choose_canonical(g).canon,
      justification |-> choose_canonical(g).justification ]

(***************************************************************************)
(* main, from the grouping on.                                             *)
(***************************************************************************)
EmptyReport ==
    [ exact_body_duplicates |-> <<>>, identical_named_duplicates |-> <<>>,
      fuzzy_duplicates |-> <<>> ]

InitMain ==
    /\ pc = "group_exact"
    /\ funcs \in {fs \in Texts(RecordPool, MaxFuncs) :
                    /\ \A k \in 1..Len(fs) : \A m \in 1..Len(fs) :
                          k # m => ~SameRecord(fs[k], fs[m])
                    /\ ScanOrder(fs)}
    /\ exact_groups = <<>> /\ ident_groups = <<>>
    /\ remaining = <<>> /\ unused = <<>> /\ fuzzy_groups = <<>>
    /\ out = EmptyReport
    /\ path = <<>> /\ lines = <<>> /\ i = 0 /\ results = <<>>
    /\ text = <<>> /\ once = <<>> /\ twice = <<>>

GroupExact ==
    /\ pc = "group_exact"
    /\ exact_groups' = group_exact(funcs)
    /\ pc' = "group_identical_named"
    /\ UNCHANGED <<funcs, ident_groups, remaining, unused, fuzzy_groups, out,
                   extractVars, normVars>>

GroupIdenticalNamed ==
    /\ pc = "group_identical_named"
    /\ ident_groups' = group_identical_named(funcs)
    /\ pc' = "select_remaining"
    /\ UNCHANGED <<funcs, exact_groups, remaining, unused, fuzzy_groups, out,
                   extractVars, normVars>>

\* Remaining keeping every record
RemainingAll(fs, groups) == fs

\* exact_norms and remaining
Remaining(fs, groups) ==
    LET exact_norms == {groups[k][1].norm : k \in
                          {n \in 1..Len(groups) :
                             Len(groups[n]) > 0 /\ groups[n][1].norm # <<>>}}
    IN  SelectSeq(fs, LAMBDA f : f.norm \notin exact_norms)

\* remaining, and group_fuzzy's unused = list(funcs), groups = []
SelectRemaining ==
    /\ pc = "select_remaining"
    /\ remaining' = Remaining(funcs, exact_groups)
    /\ unused' = Remaining(funcs, exact_groups)
    /\ fuzzy_groups' = <<>>
    /\ pc' = "group_fuzzy"
    /\ UNCHANGED <<funcs, exact_groups, ident_groups, out,
                   extractVars, normVars>>

\* one pass of "while unused"
FuzzyStep ==
    /\ pc = "group_fuzzy"
    /\ Len(unused) > 0
    /\ LET cluster == Cluster(unused)
       IN  /\ unused' = SelectSeq(Tail(unused),
                                  LAMBDA o : ~Similar(Head(unused), o))
           /\ fuzzy_groups' = IF Len(cluster) > 1
                              THEN Append(fuzzy_groups, cluster)
                              ELSE fuzzy_groups
    /\ UNCHANGED <<pc, funcs, exact_groups, ident_groups, remaining, out,
                   extractVars, normVars>>

\* unused is empty: return groups
FuzzyReturn ==
    /\ pc = "group_fuzzy"
    /\ Len(unused) = 0
    /\ pc' = "report_exact"
    /\ UNCHANGED <<mainVars, extractVars, normVars>>

ReportExact ==
    /\ pc = "report_exact"
    /\ out' = [out EXCEPT !.exact_body_duplicates =
                 [k \in 1..Len(exact_groups) |-> GroupReport(exact_groups[k])]]
    /\ pc' = "report_identical_named"
    /\ UNCHANGED <<funcs, exact_groups, ident_groups, remaining, unused,
                   fuzzy_groups, extractVars, normVars>>

ReportIdenticalNamed ==
    /\ pc = "report_identical_named"
    /\ out' = [out EXCEPT !.identical_named_duplicates =
                 [k \in 1..Len(ident_groups) |-> GroupReport(ident_groups[k])]]
    /\ pc' = "report_fuzzy"
    /\ UNCHANGED <<funcs, exact_groups, ident_groups, remaining, unused,
                   fuzzy_groups, extractVars, normVars>>

ReportFuzzy ==
    /\ pc = "report_fuzzy"
    /\ out' = [out EXCEPT !.fuzzy_duplicates =
                 [k \in 1..Len(fuzzy_groups) |-> ClusterReport(fuzzy_groups[k])]]
    /\ pc' = "done"
    /\ UNCHANGED <<funcs, exact_groups, ident_groups, remaining, unused,
                   fuzzy_groups, extractVars, normVars>>

NextMain ==
    \/ GroupExact \/ GroupIdenticalNamed \/ SelectRemaining
    \/ FuzzyStep \/ FuzzyReturn
    \/ ReportExact \/ ReportIdenticalNamed \/ ReportFuzzy

SpecMain == InitMain /\ [][NextMain]_vars

(***************************************************************************)
(* Properties of extract_functions (SpecExtract, SpecExtractLong).         *)
(***************************************************************************)
\* C1: the records are in source order and never overlap: every record has
\* 1 <= start_line <= end_line <= N (N the number of lines), and each
\* record ends strictly before the next one starts.
C1_SourceOrderNoOverlap ==
    /\ \A k \in 1..Len(results) :
          /\ 1 <= results[k].start_line
          /\ results[k].start_line <= results[k].end_line
          /\ results[k].end_line <= Len(lines)
    /\ \A k \in 1..(Len(results) - 1) :
          results[k].end_line < results[k + 1].start_line

\* a finished scan that found a function of several lines and another
\* function after it
C1_Witness ==
    /\ pc = "scanned"
    /\ Len(results) >= 2
    /\ results[1].end_line > results[1].start_line
    /\ results[2].start_line = results[1].end_line + 1

\* the text holds nothing but whitespace, line comments and closed block
\* comments
RECURSIVE CommentsOnly(_)
CommentsOnly(s) ==
    LET p == SkipWhile(s, 1, WsChars)
    IN  IF p > Len(s) THEN TRUE
        ELSE IF MatchLit(s, p, <<"/", "/">>)
             THEN CommentsOnly(SubSeq(s, SkipUntil(s, p + 2, "\n"), Len(s)))
        ELSE IF MatchLit(s, p, <<"/", "*">>)
             THEN LET closes == Pairs(s, p + 2, "*", "/")
                  IN  /\ closes # {}
                      /\ CommentsOnly(SubSeq(s, Min(closes) + 2, Len(s)))
        ELSE FALSE

\* C8: a file that consists only of comments and whitespace yields zero
\* function records, also when a line inside a block comment is shaped
\* like a function start.
C8_CommentsOnlyNoRecords ==
    (pc = "scanned" /\ CommentsOnly(Join(lines, <<"\n">>))) => results = <<>>

\* C9: every record produced by extract_functions has a snippet of at most
\* 120 characters, also when the first 120 characters of the function text
\* hold newlines.
C9_SnippetAtMost120 ==
    \A k \in 1..Len(results) : Len(results[k].snippet) <= 120

\* C10: when the first pattern matching line i captures a denylisted name,
\* line i starts no record and the next line examined is line i+1.
C10_RejectedLineThenNextLine ==
    [][ ( /\ pc = "scan"
          /\ i < Len(lines)
          /\ FirstMatch(lines[i + 1]).ok
          /\ IsKeywordName(FirstMatch(lines[i + 1]).name) )
        => (results' = results /\ i' = i + 1) ]_vars

(***************************************************************************)
(* Properties of normalize (SpecNormalize).                                *)
(***************************************************************************)
\* C7: normalization is idempotent: normalize(normalize(s)) = normalize(s)
\* for every text s.
C7_NormalizeIdempotent == pc = "renormalized" => twice = once

(***************************************************************************)
(* Properties of the grouping (SpecMain).                                  *)
(***************************************************************************)
Indices(seq) == 1..Len(seq)

\* record f is a member of group g
Member(f, g) == \E m \in Indices(g) : SameRecord(g[m], f)

\* C2: group_exact returns exactly the partitions of the records by norm
\* that have a non-empty norm and at least 2 members: each group has >= 2
\* members with one non-empty norm, holds every record of that norm (once),
\* and every non-empty norm carried by >= 2 records yields one group.
C2_ExactGroupsArePartitions ==
    pc # "group_exact" =>
      /\ \A k \in Indices(exact_groups) :
            LET g == exact_groups[k]
            IN  /\ Len(g) >= 2
                /\ g[1].norm # <<>>
                /\ \A m \in Indices(g) :
                      /\ g[m].norm = g[1].norm
                      /\ \E n \in Indices(funcs) : funcs[n] = g[m]
                /\ \A n \in Indices(funcs) :
                      funcs[n].norm = g[1].norm => Member(funcs[n], g)
                /\ Len(g) = Cardinality({n \in Indices(funcs) :
                                           funcs[n].norm = g[1].norm})
      /\ \A n \in Indices(funcs) :
            ( /\ funcs[n].norm # <<>>
              /\ \E n2 \in Indices(funcs) :
                    n2 # n /\ funcs[n2].norm = funcs[n].norm )
            => Cardinality({k \in Indices(exact_groups) :
                              exact_groups[k][1].norm = funcs[n].norm}) = 1

\* an exact group exists next to two records of empty norm
C2_Witness ==
    /\ pc = "done"
    /\ Len(exact_groups) >= 1
    /\ \E n \in Indices(funcs) : \E n2 \in Indices(funcs) :
          n # n2 /\ funcs[n].norm = <<>> /\ funcs[n2].norm = <<>>

\* C3: every group of group_identical_named has >= 2 members that share
\* one present name and carry at least two distinct norms; records without
\* a name are in no group, and same-named records whose norms are all
\* identical produce no group.
C3_IdenticalNamedGroups ==
    pc \notin {"group_exact", "group_identical_named"} =>
      /\ \A k \in Indices(ident_groups) :
            LET g == ident_groups[k]
            IN  /\ Len(g) >= 2
                /\ g[1].name # None
                /\ \A m \in Indices(g) : g[m].name = g[1].name
                /\ Cardinality({g[m].norm : m \in Indices(g)}) >= 2
      /\ \A n \in Indices(funcs) :
            funcs[n].name = None =>
                \A k \in Indices(ident_groups) : ~Member(funcs[n], ident_groups[k])
      /\ \A n \in Indices(funcs) :
            (\A n2 \in Indices(funcs) :
                funcs[n2].name = funcs[n].name => funcs[n2].norm = funcs[n].norm)
            => \A k \in Indices(ident_groups) :
                  ident_groups[k][1].name # funcs[n].name

\* an identical-named group exists, two records without a name differ in
\* norm, and two records of one name have one norm
C3_Witness ==
    /\ pc = "done"
    /\ Len(ident_groups) >= 1
    /\ \E n \in Indices(funcs) : \E n2 \in Indices(funcs) :
          /\ funcs[n].name = None /\ funcs[n2].name = None
          /\ funcs[n].norm # funcs[n2].norm

\* C4: no record is both in an exact-body group and in a fuzzy cluster (as
\* representative or as match): the fuzzy pool holds only records whose
\* norm is not the norm of any exact-body group.
C4_ExactAndFuzzyDisjoint ==
    pc \notin {"group_exact", "group_identical_named", "select_remaining"} =>
      /\ \A n \in Indices(remaining) : \A k \in Indices(exact_groups) :
            remaining[n].norm # exact_groups[k][1].norm
      /\ \A n \in Indices(unused) : \A k \in Indices(exact_groups) :
            ~Member(unused[n], exact_groups[k])
      /\ \A c \in Indices(fuzzy_groups) : \A m \in Indices(fuzzy_groups[c]) :
            \A k \in Indices(exact_groups) :
                ~Member(fuzzy_groups[c][m], exact_groups[k])

\* a run that reported an exact group and a fuzzy cluster
C4_Witness ==
    /\ pc = "done"
    /\ Len(exact_groups) >= 1
    /\ Len(fuzzy_groups) >= 1
    /\ Len(remaining) < Len(funcs)

\* score is in [0.82, 1.0)
InFuzzyRange(score) == AtLeast(score, 82) /\ BelowOne(score)

\* the records group_fuzzy took as representatives: those of its input
\* that no cluster holds as a match
Representatives ==
    {n \in Indices(remaining) :
        \A c \in Indices(fuzzy_groups) :
            \A m \in 2..Len(fuzzy_groups[c]) :
                ~SameRecord(fuzzy_groups[c][m], remaining[n])}

\* record o is a match in the cluster whose representative is rep
MatchOf(rep, o) ==
    \E c \in Indices(fuzzy_groups) :
        /\ SameRecord(fuzzy_groups[c][1], rep)
        /\ \E m \in 2..Len(fuzzy_groups[c]) : SameRecord(fuzzy_groups[c][m], o)

\* C5 as stated: for every representative and every other record of the
\* fuzzy input pool, the record is in the representative's cluster when it
\* scores in [0.82, 1.0) relative to it, and is not when it scores < 0.82.
C5_EveryPoolRecordClustered ==
    pc = "done" =>
      \A r \in Representatives : \A n \in Indices(remaining) :
          n # r =>
            LET score == Ratio(remaining[r].norm, remaining[n].norm)
            IN  /\ InFuzzyRange(score) => MatchOf(remaining[r], remaining[n])
                /\ ~AtLeast(score, 82) => ~MatchOf(remaining[r], remaining[n])

\* C5 amended: when group_fuzzy takes a representative, every record still
\* in the pool at that moment is placed in the representative's cluster
\* (and leaves the pool) exactly when it scores in [0.82, 1.0) relative to
\* the representative; every match of every cluster scores in [0.82, 1.0)
\* relative to its representative.
C5_UnclusteredRecordsClustered ==
    [][ /\ (pc = "group_fuzzy" /\ Len(unused) > 0) =>
              LET rep     == Head(unused)
                  grown   == Len(fuzzy_groups') > Len(fuzzy_groups)
                  cluster == IF grown THEN fuzzy_groups'[Len(fuzzy_groups')]
                             ELSE <<rep>>
              IN  /\ SameRecord(cluster[1], rep)
                  /\ \A k \in 2..Len(unused) :
                        LET score == Ratio(rep.norm, unused[k].norm)
                            taken == \E m \in 2..Len(cluster) :
                                        SameRecord(cluster[m], unused[k])
                            left  == \E m \in Indices(unused') :
                                        SameRecord(unused'[m], unused[k])
                        IN  /\ taken <=> InFuzzyRange(score)
                            /\ left <=> ~taken
                  /\ \A m \in 2..Len(cluster) :
                        \E k \in 2..Len(unused) : SameRecord(cluster[m], unused[k])
        /\ \A c \in Indices(fuzzy_groups') :
              \A m \in 2..Len(fuzzy_groups'[c]) :
                  InFuzzyRange(Ratio(fuzzy_groups'[c][1].norm,
                                     fuzzy_groups'[c][m].norm)) ]_vars

\* a finished clustering with a cluster, in which a later representative
\* scores in the range against a record an earlier one had absorbed, and
\* two records that score 0.8 stayed apart
C5_Witness ==
    /\ pc = "done"
    /\ Len(fuzzy_groups) >= 1
    /\ \E r \in Representatives : \E n \in Indices(remaining) :
          /\ n # r
          /\ InFuzzyRange(Ratio(remaining[r].norm, remaining[n].norm))
          /\ ~MatchOf(remaining[r], remaining[n])

\* c is the path of a member of g that is no longer than any member's path
\* and, among the paths of its length, the first in lexicographic order
ShortestThenFirst(g, c) ==
    /\ \E m \in Indices(g) : g[m].path = c
    /\ \A m \in Indices(g) :
          /\ Len(c) <= Len(g[m].path)
          /\ Len(c) = Len(g[m].path) => (c = g[m].path \/ StrLess(c, g[m].path))

\* every reordering of g yields the choice c
OrderIndependent(g, c) ==
    \A perm \in Permutations(Indices(g)) :
        choose_canonical([k \in Indices(g) |-> g[perm[k]]]).canon = c

\* C6: for every group of >= 2 records choose_canonical returns the path of
\* a member whose path is no longer than any other member's, ties broken by
\* lexicographic order, and the choice does not depend on member order.
C6_CanonicalShortestThenLexFirst ==
    /\ \A k \in Indices(out.exact_body_duplicates) :
          /\ Len(exact_groups[k]) >= 2
          /\ ShortestThenFirst(exact_groups[k],
                               out.exact_body_duplicates[k].suggested_canonical)
          /\ OrderIndependent(exact_groups[k],
                              out.exact_body_duplicates[k].suggested_canonical)
    /\ \A k \in Indices(out.identical_named_duplicates) :
          /\ Len(ident_groups[k]) >= 2
          /\ ShortestThenFirst(ident_groups[k],
                               out.identical_named_duplicates[k].suggested_canonical)
          /\ OrderIndependent(ident_groups[k],
                              out.identical_named_duplicates[k].suggested_canonical)
    /\ \A k \in Indices(out.fuzzy_duplicates) :
          /\ Len(fuzzy_groups[k]) >= 2
          /\ ShortestThenFirst(fuzzy_groups[k],
                               out.fuzzy_duplicates[k].suggested_canonical)
          /\ OrderIndependent(fuzzy_groups[k],
                              out.fuzzy_duplicates[k].suggested_canonical)

\* a report with a group whose first member has a longer path than the
\* choice, and a group in which two paths of the chosen length differ
C6_Witness ==
    /\ pc = "done"
    /\ \E k \in Indices(out.exact_body_duplicates) :
          Len(exact_groups[k][1].path)
            > Len(out.exact_body_duplicates[k].suggested_canonical)
    /\ \E k \in Indices(out.identical_named_duplicates) :
          \E m \in Indices(ident_groups[k]) :
              /\ ident_groups[k][m].path
                   # out.identical_named_duplicates[k].suggested_canonical
              /\ Len(ident_groups[k][m].path)
                   = Len(out.identical_named_duplicates[k].suggested_canonical)

====
